---- MODULE Spec2Model ----
(***************************************************************************)
(* Model of the rebalancing crate (src/src/lib.rs, src/src/main.rs):       *)
(* calculate_optimal_reinvest = get_fractional_reinvest_amounts (iterative *)
(* fractional targets with optional exclusion of holdings) followed by an  *)
(* exhaustive search over the floor/ceil rounding combinations.            *)
(*                                                                         *)
(* All prices, ratios and amounts of the program are f64.  They are        *)
(* modelled as IEEE-754 binary64 values with the full 53-bit significand   *)
(* and round-to-nearest-even after every operation.  TLC integers are 32   *)
(* bits wide, so significands are kept as little-endian sequences of       *)
(* 15-bit limbs.  The exponent range is not bounded (no overflow to        *)
(* infinity and no subnormals: the values of the model stay far from both) *)
(* and the sign of zero is not kept (it is not observable in the plan).    *)
(***************************************************************************)
EXTENDS Integers, Sequences, FiniteSets, TLC

\* ------------------------------------------------------------------------
\* Natural numbers of arbitrary size: little-endian sequences of limbs,
\* without leading (most significant) zero limbs; << >> is zero.
\* ------------------------------------------------------------------------
LimbBits == 15

RECURSIVE Pow2(_)
Pow2(n) == IF n = 0 THEN 1 ELSE 2 * Pow2(n - 1)

Base == Pow2(LimbBits)

RECURSIVE BTrim(_)
BTrim(a) == IF a = << >> THEN a
            ELSE IF a[Len(a)] = 0 THEN BTrim(SubSeq(a, 1, Len(a) - 1))
            ELSE a

BFromInt(n) == IF n = 0 THEN << >>
               ELSE IF n < Base THEN << n >>
               ELSE IF n < Base * Base THEN << n % Base, n \div Base >>
               ELSE << n % Base, (n \div Base) % Base, n \div (Base * Base) >>

Limb(a, i) == IF i >= 1 /\ i <= Len(a) THEN a[i] ELSE 0

RECURSIVE BCmpFrom(_, _, _)
BCmpFrom(a, b, i) ==
    IF i = 0 THEN 0
    ELSE IF a[i] > b[i] THEN 1
    ELSE IF a[i] < b[i] THEN -1
    ELSE BCmpFrom(a, b, i - 1)

\* -1, 0, 1 as a < b, a = b, a > b
BCmp(a, b) == IF Len(a) > Len(b) THEN 1
              ELSE IF Len(a) < Len(b) THEN -1
              ELSE BCmpFrom(a, b, Len(a))

RECURSIVE BAddFrom(_, _, _, _, _)
BAddFrom(a, b, i, n, carry) ==
    IF i > n THEN (IF carry = 0 THEN << >> ELSE << carry >>)
    ELSE LET t == Limb(a, i) + Limb(b, i) + carry
         IN  << t % Base >> \o BAddFrom(a, b, i + 1, n, t \div Base)

BAdd(a, b) == BAddFrom(a, b, 1, IF Len(a) > Len(b) THEN Len(a) ELSE Len(b), 0)

RECURSIVE BSubFrom(_, _, _, _)
BSubFrom(a, b, i, borrow) ==
    IF i > Len(a) THEN << >>
    ELSE LET t == a[i] - Limb(b, i) - borrow
         IN  IF t < 0 THEN << t + Base >> \o BSubFrom(a, b, i + 1, 1)
             ELSE << t >> \o BSubFrom(a, b, i + 1, 0)

\* a - b, for a >= b
BSub(a, b) == BTrim(BSubFrom(a, b, 1, 0))

RECURSIVE BMulSmallFrom(_, _, _, _)
BMulSmallFrom(a, k, i, carry) ==
    IF i > Len(a) THEN (IF carry = 0 THEN << >> ELSE << carry >>)
    ELSE LET t == a[i] * k + carry
         IN  << t % Base >> \o BMulSmallFrom(a, k, i + 1, t \div Base)

\* a * k, for 0 <= k < Base
BMulSmall(a, k) == IF k = 0 THEN << >> ELSE BMulSmallFrom(a, k, 1, 0)

\* a * Base^n
BShlLimbs(a, n) == IF a = << >> THEN a ELSE [i \in 1..n |-> 0] \o a

\* a \div Base^n
BShrLimbs(a, n) == IF n >= Len(a) THEN << >> ELSE SubSeq(a, n + 1, Len(a))

RECURSIVE BMulFrom(_, _, _)
BMulFrom(a, b, j) ==
    IF j > Len(b) THEN << >>
    ELSE BAdd(BShlLimbs(BMulSmall(a, b[j]), j - 1), BMulFrom(a, b, j + 1))

BMul(a, b) == BMulFrom(a, b, 1)

\* a * 2^n
BShl(a, n) == BShlLimbs(BMulSmall(a, Pow2(n % LimbBits)), n \div LimbBits)

RECURSIVE BDivSmallFrom(_, _, _, _)
BDivSmallFrom(a, k, i, rem) ==
    IF i = 0 THEN << >>
    ELSE LET t == rem * Base + a[i]
         IN  BDivSmallFrom(a, k, i - 1, t % k) \o << t \div k >>

\* a \div 2^n
BShr(a, n) == LET w == BShrLimbs(a, n \div LimbBits)
              IN  BTrim(BDivSmallFrom(w, Pow2(n % LimbBits), Len(w), 0))

RECURSIVE IntBitLen(_)
IntBitLen(n) == IF n = 0 THEN 0 ELSE 1 + IntBitLen(n \div 2)

BBitLen(a) == IF a = << >> THEN 0
              ELSE (Len(a) - 1) * LimbBits + IntBitLen(a[Len(a)])

\* bit n (0 = least significant) of a
BBit(a, n) == (Limb(a, (n \div LimbBits) + 1) \div Pow2(n % LimbBits)) % 2

\* TRUE iff some bit of a below bit n is set
BLowNonZero(a, n) ==
    \/ \E i \in 1..(n \div LimbBits) : Limb(a, i) # 0
    \/ Limb(a, (n \div LimbBits) + 1) % Pow2(n % LimbBits) # 0

BIsOdd(a) == a # << >> /\ a[1] % 2 = 1

\* The largest digit q with q * d <= r, from the estimate qh >= q
RECURSIVE QFix(_, _, _)
QFix(r, d, qh) == IF BCmp(BMulSmall(d, qh), r) > 0 THEN QFix(r, d, qh - 1) ELSE qh

\* r \div d for r < d * Base (one quotient digit), estimated from the two
\* leading limbs of r and the leading limb of d
QDigit(r, d) ==
    IF BCmp(r, d) < 0 THEN 0
    ELSE LET est == (Limb(r, Len(d) + 1) * Base + Limb(r, Len(d))) \div d[Len(d)]
         IN  QFix(r, d, IF est < Base THEN est ELSE Base - 1)

\* Long division, one quotient limb per step: i is the next limb of a to
\* bring down, q the quotient limbs so far, r < d the running remainder.
RECURSIVE BDivStep(_, _, _, _, _)
BDivStep(a, d, i, q, r) ==
    IF i = 0 THEN << BTrim(q), r >>
    ELSE LET r1 == BTrim(<< a[i] >> \o r)
             dg == QDigit(r1, d)
         IN  BDivStep(a, d, i - 1, << dg >> \o q, BSub(r1, BMulSmall(d, dg)))

\* << (a * 2^extra) \div d, (a * 2^extra) % d >>, for d > 0.  Both are
\* scaled by 2^s to set the top bit of d's leading limb, which keeps the
\* digit estimates within 2 of the digits.
BDivMod(a, d, extra) ==
    LET s  == LimbBits - IntBitLen(d[Len(d)])
        a2 == BShl(a, extra + s)
        qr == BDivStep(a2, BShl(d, s), Len(a2), << >>, << >>)
    IN  << qr[1], BShr(qr[2], s) >>

\* ------------------------------------------------------------------------
\* f64.  A value is NaN or (-1)^neg * m * 2^e with m a natural number below
\* 2^53, kept odd (or zero, with e = 0 and neg = FALSE) so that equal
\* numbers are equal records.
\* ------------------------------------------------------------------------
MantBits == 53

NaN == [nan |-> TRUE, neg |-> FALSE, m |-> << >>, e |-> 0]
FZero == [nan |-> FALSE, neg |-> FALSE, m |-> << >>, e |-> 0]

RECURSIVE IntTrailingZeros(_)
IntTrailingZeros(n) == IF n % 2 = 1 THEN 0 ELSE 1 + IntTrailingZeros(n \div 2)

RECURSIVE BTrailingZeros(_, _)
BTrailingZeros(a, i) == IF a[i] = 0 THEN LimbBits + BTrailingZeros(a, i + 1)
                        ELSE IntTrailingZeros(a[i])

\* the record of (-1)^neg * m * 2^e, for m below 2^53 (m need not be odd)
Canon(neg, m, e) ==
    IF m = << >> THEN FZero
    ELSE LET z == BTrailingZeros(m, 1)
         IN  [nan |-> FALSE, neg |-> neg, m |-> BShr(m, z), e |-> e + z]

\* (-1)^neg * (m + f) * 2^e rounded to nearest, ties to even, where
\* 0 < f < 1 if sticky and f = 0 otherwise; sticky only with m >= 2^54
Round53(neg, m, e, sticky) ==
    LET bl == BBitLen(m)
    IN  IF bl <= MantBits THEN Canon(neg, m, e)
        ELSE LET s     == bl - MantBits
                 q     == BShr(m, s)
                 guard == BBit(m, s - 1)
                 rest  == sticky \/ BLowNonZero(m, s - 1)
                 up    == guard = 1 /\ (rest \/ BIsOdd(q))
             IN  Canon(neg, IF up THEN BAdd(q, << 1 >>) ELSE q, e + s)

IsZero(x) == ~x.nan /\ x.m = << >>

\* i32 as f64 (exact)
FFromInt(n) == Canon(n < 0, BFromInt(IF n < 0 THEN 0 - n ELSE n), 0)

FNeg(x) == IF x.nan \/ IsZero(x) THEN x ELSE [x EXCEPT !.neg = ~x.neg]

\* -1, 0, 1 as |a| < |b|, |a| = |b|, |a| > |b| (a, b not NaN)
CmpMag(a, b) ==
    LET e == IF a.e < b.e THEN a.e ELSE b.e
    IN  BCmp(BShl(a.m, a.e - e), BShl(b.m, b.e - e))

\* -1, 0, 1 as a < b, a = b, a > b (a, b not NaN)
CmpNum(a, b) ==
    IF a.neg /\ ~b.neg THEN -1
    ELSE IF ~a.neg /\ b.neg THEN 1
    ELSE IF a.neg THEN 0 - CmpMag(a, b)
    ELSE CmpMag(a, b)

\* a > b of f64: FALSE when either is NaN
FGt(a, b) == ~a.nan /\ ~b.nan /\ CmpNum(a, b) = 1

\* a + b
FAdd(a, b) ==
    IF a.nan \/ b.nan THEN NaN
    ELSE LET e  == IF a.e < b.e THEN a.e ELSE b.e
             ma == BShl(a.m, a.e - e)
             mb == BShl(b.m, b.e - e)
             c  == BCmp(ma, mb)
         IN  IF a.neg = b.neg THEN Round53(a.neg, BAdd(ma, mb), e, FALSE)
             ELSE IF c = 0 THEN FZero
             ELSE IF c = 1 THEN Round53(a.neg, BSub(ma, mb), e, FALSE)
             ELSE Round53(b.neg, BSub(mb, ma), e, FALSE)

\* a - b
FSub(a, b) == FAdd(a, FNeg(b))

\* a * b
FMul(a, b) ==
    IF a.nan \/ b.nan THEN NaN
    ELSE Round53(a.neg # b.neg, BMul(a.m, b.m), a.e + b.e, FALSE)

\* a / b.  0/0 is NaN.  x/0 with x # 0 (an infinity) has no arm: it needs a
\* zero price, or a zero ratio sum with a non-zero ratio, and the stocks of
\* the model have positive prices and non-negative ratios.
FDiv(a, b) ==
    CASE a.nan \/ b.nan -> NaN
      [] ~a.nan /\ ~b.nan /\ IsZero(b) /\ IsZero(a) -> NaN
      [] ~a.nan /\ ~b.nan /\ ~IsZero(b) /\ IsZero(a) -> FZero
      [] ~a.nan /\ ~b.nan /\ ~IsZero(b) /\ ~IsZero(a) ->
           IF b.m = << 1 >> THEN Canon(a.neg # b.neg, a.m, a.e - b.e)
           ELSE LET d  == MantBits + 2 + BBitLen(b.m) - BBitLen(a.m)
                    k  == IF d > 0 THEN d ELSE 0
                    qr == BDivMod(a.m, b.m, k)
                IN  Round53(a.neg # b.neg, qr[1], a.e - b.e - k, qr[2] # << >>)

\* f64::floor and f64::ceil
FFloor(x) ==
    IF x.nan \/ x.e >= 0 THEN x
    ELSE LET q == BShr(x.m, 0 - x.e)
         IN  IF x.neg THEN Canon(TRUE, BAdd(q, << 1 >>), 0) ELSE Canon(FALSE, q, 0)

FCeil(x) ==
    IF x.nan \/ x.e >= 0 THEN x
    ELSE LET q == BShr(x.m, 0 - x.e)
         IN  IF x.neg THEN Canon(TRUE, q, 0) ELSE Canon(FALSE, BAdd(q, << 1 >>), 0)

I32Max == 2147483647

RECURSIVE BToIntFrom(_, _)
BToIntFrom(a, i) == IF i > Len(a) THEN 0 ELSE a[i] + Base * BToIntFrom(a, i + 1)

\* `x as i32`: NaN is 0, the fraction is dropped, out of range saturates
FToI32(x) ==
    IF x.nan THEN 0
    ELSE LET t == IF x.e >= 0 THEN BShl(x.m, x.e) ELSE BShr(x.m, 0 - x.e)
         IN  IF BBitLen(t) > 31 THEN (IF x.neg THEN 0 - I32Max - 1 ELSE I32Max)
             ELSE IF x.neg THEN 0 - BToIntFrom(t, 1) ELSE BToIntFrom(t, 1)

\* f64::total_cmp as -1, 0, 1.  A NaN cost only arises with every cost NaN
\* (the same NaN), which compare equal; numbers compare by value.
TotalCmp(a, b) ==
    IF a.nan /\ b.nan THEN 0
    ELSE IF a.nan THEN 1
    ELSE IF b.nan THEN -1
    ELSE CmpNum(a, b)

\* The f64 a decimal literal n/d of the portfolio file or of the command
\* line parses to: the nearest f64 to the rational n/d.
Dec(n, d) == FDiv(FFromInt(n), FFromInt(d))

\* ------------------------------------------------------------------------
\* Inputs: the portfolio file and the command line (src/src/main.rs).
\* ------------------------------------------------------------------------
\* Largest number of stocks of a portfolio of the model
MaxStocks == 2

\* struct Stock; ISIN and Symbol take no part in the computation
Stock(wkn, price, shares, ratio) ==
    [WKN |-> wkn, Price |-> price, Shares |-> shares, GoalRatio |-> ratio]

\* The stocks a portfolio file of the model is made of.  WKNs are unique,
\* prices positive, shares and ratios non-negative.
Catalogue ==
    { Stock("A", Dec(1, 10), 6, Dec(1, 4)),
      Stock("B", FFromInt(1), 0, Dec(1, 2)),
      Stock("C", FFromInt(1), 0, Dec(1, 2)),
      Stock("D", FFromInt(2), 3, Dec(1, 4)),
      Stock("E", FFromInt(1), 2, FZero),
      Stock("F", Dec(1, 2), 1, FFromInt(1)) }

\* struct Portfolio as serde_json reads it: Stocks, in the order of the file
Portfolios ==
    UNION { { p \in [1..n -> Catalogue] : \A i, j \in 1..n : p[i] = p[j] => i = j } :
            n \in 0..MaxStocks }

\* --reinvest
ReinvestAmounts == { FFromInt(-1), FZero, Dec(3, 10), FFromInt(1) }

VARIABLES
    portfolio,        \* portfolio.Stocks
    reinvest_amount,  \* reinvest_amount / reinvest
    no_selling,       \* no_selling
    pc,               \* "resolve": in the loop of get_fractional_reinvest_amounts,
                      \* "search": it has returned, "done": the call has returned
    selected_stocks,  \* selected_stocks: the positions in portfolio.Stocks of the &Stock
    new_amounts,      \* new_amounts of the last pass of the loop
    history,          \* selected_stocks at the start of every pass so far
    result            \* the Result calculate_optimal_reinvest returns

vars == << portfolio, reinvest_amount, no_selling, pc, selected_stocks,
           new_amounts, history, result >>

NoResult == [kind |-> "none", total |-> FZero, plan |-> << >>]

\* ------------------------------------------------------------------------
\* get_fractional_reinvest_amounts
\* ------------------------------------------------------------------------
RECURSIVE FoldSum(_, _, _)
\* fold(acc, |acc, x| acc + x) over terms[i..]
FoldSum(terms, i, acc) ==
    IF i > Len(terms) THEN acc ELSE FoldSum(terms, i + 1, FAdd(acc, terms[i]))

\* selected_sum
SelectedSum(stocks, sel) ==
    FoldSum([i \in 1..Len(sel) |->
                FMul(stocks[sel[i]].Price, FFromInt(stocks[sel[i]].Shares))], 1, FZero)

\* ratio_sum
RatioSum(stocks, sel) ==
    FoldSum([i \in 1..Len(sel) |-> stocks[sel[i]].GoalRatio], 1, FZero)

\* goal_amounts
GoalAmounts(stocks, sel, reinvest) ==
    LET goal_sum  == FAdd(SelectedSum(stocks, sel), reinvest)
        ratio_sum == RatioSum(stocks, sel)
    IN  [i \in 1..Len(sel) |->
            FDiv(FMul(FDiv(stocks[sel[i]].GoalRatio, ratio_sum), goal_sum),
                 stocks[sel[i]].Price)]

\* new_amounts of one pass
NewAmounts(stocks, sel, reinvest) ==
    LET goal_amounts == GoalAmounts(stocks, sel, reinvest)
    IN  [i \in 1..Len(sel) |-> FSub(goal_amounts[i], FFromInt(stocks[sel[i]].Shares))]

\* Mutants of BuysPositive: the arms of the match swapped; a test that
\* keeps a NaN amount
BuysPositive_Swapped(new_amount) == ~FGt(new_amount, FZero)
BuysPositive_NotLe(new_amount) == new_amount.nan \/ CmpNum(new_amount, FZero) = 1

\* the filter_map's test: the stock is kept
BuysPositive(new_amount) == FGt(new_amount, FZero)

RECURSIVE FilterSelected(_, _, _)
FilterSelected(sel, amounts, i) ==
    IF i > Len(sel) THEN << >>
    ELSE (IF BuysPositive(amounts[i]) THEN << sel[i] >> ELSE << >>)
         \o FilterSelected(sel, amounts, i + 1)

\* new_selected_stocks
NewSelectedStocks(sel, amounts) == FilterSelected(sel, amounts, 1)

\* Mutant of SetChanged: compares with the whole portfolio
SetChanged_Portfolio(stocks, sel, new_sel) == Len(new_sel) # Len(stocks)

\* the test that re-enters the loop
SetChanged(stocks, sel, new_sel) == Len(new_sel) # Len(sel)

\* One pass of the loop: `continue` with the reduced selection, or `break`.
ResolvePass ==
    /\ pc = "resolve"
    /\ LET amounts == NewAmounts(portfolio, selected_stocks, reinvest_amount)
           new_sel == NewSelectedStocks(selected_stocks, amounts)
       IN  /\ new_amounts' = amounts
           /\ history' = Append(history, selected_stocks)
           /\ IF no_selling /\ SetChanged(portfolio, selected_stocks, new_sel)
              THEN selected_stocks' = new_sel /\ pc' = "resolve"
              ELSE selected_stocks' = selected_stocks /\ pc' = "search"
    /\ UNCHANGED << portfolio, reinvest_amount, no_selling, result >>

\* ------------------------------------------------------------------------
\* get_rounding_combinations
\* ------------------------------------------------------------------------
RECURSIVE Binary(_)
\* the digits of {num:b}: no leading zeros, "0" for 0
Binary(num) == IF num < 2 THEN << num >> ELSE Binary(num \div 2) \o << num % 2 >>

\* Mutant of FormatBinary: the least significant digit first
FormatBinary_LsbFirst(num, length) ==
    LET digits == Binary(num)
        padded == IF Len(digits) >= length THEN digits
                  ELSE [i \in 1..(length - Len(digits)) |-> 0] \o digits
    IN  [i \in 1..Len(padded) |-> padded[Len(padded) + 1 - i]]

\* format!("{num:0length$b}"): padded with zeros on the left to `length`
\* digits, never cut
FormatBinary(num, length) ==
    LET digits == Binary(num)
    IN  IF Len(digits) >= length THEN digits
        ELSE [i \in 1..(length - Len(digits)) |-> 0] \o digits

\* .chars().map(|c| !matches!(c, '0'))
CombiOf(combi_string) == [i \in 1..Len(combi_string) |-> combi_string[i] # 0]

\* Mutant of get_rounding_combinations: the range starts at 1
get_rounding_combinations_From1(length) ==
    LET limit_number == Pow2(length)
    IN  [k \in 1..(limit_number - 1) |-> CombiOf(FormatBinary(k, length))]

get_rounding_combinations(length) ==
    LET limit_number == Pow2(length)
    IN  [k \in 1..limit_number |-> CombiOf(FormatBinary(k - 1, length))]

\* ------------------------------------------------------------------------
\* calculate_optimal_reinvest
\* ------------------------------------------------------------------------
ZipLen(a, b) == IF Len(a) < Len(b) THEN Len(a) ELSE Len(b)

\* rounded_new_amounts
RoundedNewAmounts(combi, fractional_new_amounts) ==
    [i \in 1..ZipLen(combi, fractional_new_amounts) |->
        IF combi[i] THEN FCeil(fractional_new_amounts[i])
        ELSE FFloor(fractional_new_amounts[i])]

\* reinvest_sum
ReinvestSum(rounded_new_amounts, stocks, sel) ==
    FoldSum([i \in 1..ZipLen(rounded_new_amounts, sel) |->
                FMul(rounded_new_amounts[i], stocks[sel[i]].Price)], 1, FZero)

\* Mutant of OverBudget: >= for >
OverBudget_Ge(reinvest_sum, reinvest) ==
    ~reinvest_sum.nan /\ ~reinvest.nan /\ CmpNum(reinvest_sum, reinvest) >= 0

\* the filter_map's test: the combination is dropped
OverBudget(reinvest_sum, reinvest) == FGt(reinvest_sum, reinvest)

RECURSIVE FilterMap(_, _, _, _, _, _)
\* the items Some((rounded_new_amounts, reinvest_sum)) of the filter_map
FilterMap(combis, amounts, stocks, sel, reinvest, k) ==
    IF k > Len(combis) THEN << >>
    ELSE LET rounded == RoundedNewAmounts(combis[k], amounts)
             sum     == ReinvestSum(rounded, stocks, sel)
         IN  (IF OverBudget(sum, reinvest) THEN << >>
              ELSE << [amounts |-> rounded, sum |-> sum] >>)
             \o FilterMap(combis, amounts, stocks, sel, reinvest, k + 1)

\* Mutant of Later: min_by for max_by
Later_MinBy(best, item) == IF TotalCmp(best.sum, item.sum) = 1 THEN item ELSE best

\* Iterator::max_by keeps the later of two items unless the earlier
\* compares greater
Later(best, item) == IF TotalCmp(best.sum, item.sum) = 1 THEN best ELSE item

RECURSIVE MaxByFrom(_, _, _)
MaxByFrom(items, k, best) ==
    IF k > Len(items) THEN best ELSE MaxByFrom(items, k + 1, Later(best, items[k]))

\* .max_by(|a, b| a.1.total_cmp(&b.1)), for a non-empty items
MaxBy(items) == MaxByFrom(items, 2, items[1])

\* new_amounts_map: a later stock with the same WKN replaces an earlier one
NewAmountsMap(stocks, sel, optimal_new_amounts) ==
    LET n == ZipLen(sel, optimal_new_amounts)
    IN  [w \in { stocks[sel[i]].WKN : i \in 1..n } |->
            LET last == CHOOSE i \in 1..n :
                            /\ stocks[sel[i]].WKN = w
                            /\ \A j \in 1..n : stocks[sel[j]].WKN = w => j <= i
            IN  FToI32(optimal_new_amounts[last])]

\* The rest of calculate_optimal_reinvest, after
\* get_fractional_reinvest_amounts has returned.
Search ==
    /\ pc = "search"
    /\ LET rounding_combis == get_rounding_combinations(Len(selected_stocks))
           items == FilterMap(rounding_combis, new_amounts, portfolio,
                              selected_stocks, reinvest_amount, 1)
       IN  result' =
             IF items = << >>
             THEN [kind |-> "err", total |-> FZero, plan |-> << >>]
             ELSE LET optimal == MaxBy(items)
                  IN  [kind |-> "ok", total |-> optimal.sum,
                       plan |-> NewAmountsMap(portfolio, selected_stocks,
                                              optimal.amounts)]
    /\ pc' = "done"
    /\ UNCHANGED << portfolio, reinvest_amount, no_selling, selected_stocks,
                    new_amounts, history >>

Init ==
    /\ portfolio \in Portfolios
    /\ reinvest_amount \in ReinvestAmounts
    /\ no_selling \in BOOLEAN
    /\ pc = "resolve"
    /\ selected_stocks = [i \in 1..Len(portfolio) |-> i]
    /\ new_amounts = << >>
    /\ history = << >>
    /\ result = NoResult

Next == ResolvePass \/ Search

Spec == Init /\ [][Next]_vars

\* ------------------------------------------------------------------------
\* Properties
\* ------------------------------------------------------------------------
Done == pc = "done"
Returned == Done /\ result.kind = "ok"
Infeasible == Done /\ result.kind = "err"

\* a <= b of f64: FALSE when either is NaN
FLe(a, b) == ~a.nan /\ ~b.nan /\ CmpNum(a, b) <= 0

\* Every choice of floor (FALSE) or ceiling (TRUE) for each holding of the
\* final selection
Choices == [1..Len(selected_stocks) -> BOOLEAN]

\* The total cost of a choice: sum of rounded unit delta x price
CostOf(f) ==
    ReinvestSum(RoundedNewAmounts(f, new_amounts), portfolio, selected_stocks)

PlanOf(f) ==
    NewAmountsMap(portfolio, selected_stocks, RoundedNewAmounts(f, new_amounts))

Range(seq) == { seq[i] : i \in 1..Len(seq) }

\* C1: whenever calculate_optimal_reinvest returns successfully, the
\* returned total spent is less than or equal to the cash amount.
C1_BudgetInvariant == Returned => FLe(result.total, reinvest_amount)

\* C2: whenever calculate_optimal_reinvest returns successfully, no choice
\* of floor or ceiling per selected holding whose total cost is <= the cash
\* amount costs strictly more than the returned total spent.
C2_Optimality ==
    Returned =>
        \A f \in Choices :
            FLe(CostOf(f), reinvest_amount) => ~FGt(CostOf(f), result.total)

\* a successful return where affordable choices differ in cost and some
\* choice is not affordable
C2_Witness ==
    /\ Returned
    /\ Len(selected_stocks) >= 2
    /\ \E f, g \in Choices :
          /\ FLe(CostOf(f), reinvest_amount)
          /\ FLe(CostOf(g), reinvest_amount)
          /\ FGt(CostOf(f), CostOf(g))
    /\ \E f \in Choices : FGt(CostOf(f), reinvest_amount)

\* C3: with no_selling, every holding of the final selection has a
\* strictly positive fractional target and every unit delta of the
\* returned plan is >= 0.
C3_NoSelling ==
    (Returned /\ no_selling) =>
        /\ \A i \in 1..Len(new_amounts) : FGt(new_amounts[i], FZero)
        /\ \A w \in DOMAIN result.plan : result.plan[w] >= 0

\* a successful no_selling return after a holding that would be sold was
\* excluded, with a holding left
C3_Witness ==
    /\ Returned
    /\ no_selling
    /\ Len(history) >= 2
    /\ \E i \in 1..Len(portfolio) :
          /\ i \notin Range(selected_stocks)
          /\ portfolio[i].GoalRatio # FZero
    /\ \E w \in DOMAIN result.plan : result.plan[w] > 0

\* C4: the selection of every pass of the resolver is a subset of the
\* previous one and strictly smaller (the loop re-iterates only when the
\* size decreased), the loop ends after one pass without no_selling and
\* after at most (number of holdings + 1) passes with it.
C4_MonotoneExclusion ==
    /\ \A k \in 1..(Len(history) - 1) :
          /\ Range(history[k + 1]) \subseteq Range(history[k])
          /\ Len(history[k + 1]) < Len(history[k])
    /\ (pc = "resolve" /\ history # << >>) =>
          /\ Range(selected_stocks) \subseteq Range(history[Len(history)])
          /\ Len(selected_stocks) < Len(history[Len(history)])
    /\ pc # "resolve" =>
          /\ Len(history) >= 1
          /\ selected_stocks = history[Len(history)]
    /\ Len(history) <= Len(portfolio) + 1
    /\ ~no_selling => Len(history) <= 1

\* the loop has ended after the largest number of passes, each of which
\* excluded one holding
C4_Witness ==
    /\ pc # "resolve"
    /\ Len(portfolio) >= 2
    /\ Len(history) = Len(portfolio) + 1

\* C5: calculate_optimal_reinvest fails with the error exactly when every
\* choice of floor or ceiling over the final selection costs strictly more
\* than the cash amount; otherwise it returns a plan.
C5_InfeasibleExactly ==
    Done =>
        /\ result.kind \in {"ok", "err"}
        /\ result.kind = "err" <=>
              \A f \in Choices : FGt(CostOf(f), reinvest_amount)

\* the error with holdings selected
C5_Witness == Infeasible /\ Len(selected_stocks) >= 1

\* C6: one holding with target ratio 0, cash > 0 and no_selling: the
\* holding is excluded in the first pass, the selection is empty and the
\* call returns an empty plan with total spent 0.
C6_ZeroRatioHolding ==
    ( /\ Done
      /\ Len(portfolio) = 1
      /\ portfolio[1].GoalRatio = FZero
      /\ FGt(reinvest_amount, FZero)
      /\ no_selling ) =>
        /\ history = << << 1 >>, << >> >>
        /\ selected_stocks = << >>
        /\ result.kind = "ok"
        /\ DOMAIN result.plan = {}
        /\ result.total = FZero

C6_Witness ==
    /\ Done
    /\ Len(portfolio) = 1
    /\ portfolio[1].GoalRatio = FZero
    /\ FGt(reinvest_amount, FZero)
    /\ no_selling

\* The case of C7: the final selection is one holding with a positive
\* target ratio, and 0 <= cash < its price
C7_Case ==
    /\ Done
    /\ Len(selected_stocks) = 1
    /\ FGt(portfolio[selected_stocks[1]].GoalRatio, FZero)
    /\ FLe(FZero, reinvest_amount)
    /\ FGt(portfolio[selected_stocks[1]].Price, reinvest_amount)

\* C7: in that case the call fails only if the cost of the floor-rounded
\* delta exceeds the cash, and otherwise returns unit delta 0 for the
\* holding and total spent 0.
C7_CashBelowPrice ==
    C7_Case =>
        LET floor_cost == CostOf(<< FALSE >>)
            wkn == portfolio[selected_stocks[1]].WKN
        IN  /\ result.kind = "err" => FGt(floor_cost, reinvest_amount)
            /\ ~FGt(floor_cost, reinvest_amount) =>
                  /\ result.kind = "ok"
                  /\ result.plan = [w \in {wkn} |-> 0]
                  /\ result.total = FZero

\* the case with units already held, other holdings excluded before, and
\* the ceiling not affordable
C7_Witness ==
    /\ C7_Case
    /\ Returned
    /\ portfolio[selected_stocks[1]].Shares > 0
    /\ Len(portfolio) >= 2
    /\ FGt(CostOf(<< TRUE >>), reinvest_amount)

\* The choices the search keeps (not over budget) whose cost no kept
\* choice exceeds in the order of total_cmp
MaxChoices ==
    { f \in Choices :
        /\ ~OverBudget(CostOf(f), reinvest_amount)
        /\ \A g \in Choices :
              ~OverBudget(CostOf(g), reinvest_amount) =>
                  TotalCmp(CostOf(g), CostOf(f)) <= 0 }

RECURSIVE BitsValue(_, _)
\* The number whose binary digits are the flags of f, the flag of holding
\* 1 the most significant
BitsValue(f, k) ==
    IF k = 0 THEN 0
    ELSE (IF f[k] THEN Pow2(Len(selected_stocks) - k) ELSE 0) + BitsValue(f, k - 1)

EnumIndex(f) == BitsValue(f, Len(selected_stocks))

FirstMax == CHOOSE f \in MaxChoices : \A g \in MaxChoices : EnumIndex(f) <= EnumIndex(g)
LastMax == CHOOSE f \in MaxChoices : \A g \in MaxChoices : EnumIndex(f) >= EnumIndex(g)

\* C8 (as claimed): among the feasible combinations of maximum total cost,
\* the call returns the first in enumeration order (ascending number, the
\* flag of holding k the k-th bit from the most significant end).
C8_FirstEncountered ==
    Returned => result.plan = PlanOf(FirstMax)

\* C8 (amended): among the feasible combinations of maximum total cost,
\* the call returns the last in enumeration order (ascending number, the
\* flag of holding k the k-th bit from the most significant end).
C8_LastEncountered ==
    Returned =>
        /\ result.plan = PlanOf(LastMax)
        /\ result.total = CostOf(LastMax)

\* a successful return where the first and the last combination of maximum
\* cost give different plans
C8_Witness ==
    /\ Returned
    /\ PlanOf(FirstMax) # PlanOf(LastMax)

\* C9: get_rounding_combinations(N) returns 2^N pairwise distinct boolean
\* sequences, each of length N, for the N of every final selection
\* (N = 0 included).
C9_AllCombinations ==
    Done =>
        LET n == Len(selected_stocks)
            combis == get_rounding_combinations(n)
        IN  /\ Len(combis) = Pow2(n)
            /\ \A i \in 1..Len(combis) : Len(combis[i]) = n
            /\ \A i, j \in 1..Len(combis) : combis[i] = combis[j] => i = j

\* C10: with a non-empty final selection whose target ratios sum to a
\* positive value the call never fails; it fails only with an empty final
\* selection and a negative cash amount.
C10_FloorAlwaysFeasible ==
    /\ ( /\ Done
         /\ Len(selected_stocks) >= 1
         /\ FGt(RatioSum(portfolio, selected_stocks), FZero) ) =>
           result.kind = "ok"
    /\ Infeasible =>
           /\ selected_stocks = << >>
           /\ FGt(FZero, reinvest_amount)
====
